---------------------------- MODULE Spec2Model ----------------------------
(***************************************************************************)
(* Model of the NETSSD kernel module (src/src/net/ssd/netssd.c).           *)
(*                                                                         *)
(* The module registers a raw-socket protocol with the networking stack    *)
(* (netssd_init_module), removes it again (netssd_cleanup_module) and      *)
(* exports six protocol operations whose bodies are empty.                 *)
(*                                                                         *)
(* The kernel is the environment.  It owns three registries the module     *)
(* writes through proto_register / proto_unregister, inet_add_protocol /   *)
(* inet_del_protocol and inet_register_protosw, and it calls the exported  *)
(* operations with arguments of its own choosing.                          *)
(***************************************************************************)
EXTENDS Integers, Sequences, FiniteSets, TLC

\* ------------------------------------------------------------------ bounds

\* Number of sockets (session keys) the environment uses.
NumSocks == 2
\* Payload values carried by a datagram.
MaxPayload == 1
\* Largest len argument passed to sendmsg / recvmsg.
MaxLen == 1
\* The inbound queue capacity the specification configures.
InboundQueueCapacity == 2

\* --------------------------------------------------------------- constants

\* #define IPPROTO_NETSSDPROTO 14
IPPROTO_NETSSDPROTO == 14

SockIds == 1..NumSocks
Payloads == 1..MaxPayload
Lens == 0..MaxLen

\* What proto_register(&netssd_proto, 1) can return: 0, or -ENOBUFS when the
\* slab cache cannot be allocated.
ProtoRegisterResults == {0, -105}

\* A socket buffer handed to the receive callback: the session key it is
\* addressed to, whether its bytes decode as a datagram, and its payload.
Skbs == [dst : SockIds, ok : BOOLEAN, data : Payloads]

\* netssd_protosw as a static object: zero-initialised ...
ZeroProtosw ==
    [type |-> 0, protocol |-> 0, prot |-> "NULL", ops |-> "NULL", flags |-> 0]

\* ... and as netssd_init_module fills it in before registering it.
FilledProtosw ==
    [type |-> "SOCK_RAW", protocol |-> IPPROTO_NETSSDPROTO,
     prot |-> "netssd_proto", ops |-> "inet_dgram_ops",
     flags |-> "INET_PROTOSW_REUSE"]

VARIABLES
    pc,             \* position of the module's load / unload code
    via,            \* who called cleanup_module: "init" or "exit"
    rc,             \* netssd_init_module's local rc
    initRet,        \* value netssd_init_module returned ("none" before)
    failed,         \* the registry call of init that failed, and its code
    protoReg,       \* netssd_proto is on the kernel's proto list
    slot14,         \* inet_protos[14]: "none", "netssd" or "other"
    protoswReg,     \* netssd_protosw is on the kernel's inetsw list
    netssd_protosw, \* contents of the static netssd_protosw
    reachedProtosw, \* this run of init called inet_register_protosw
    created,        \* sockets created on this protocol (sessions)
    closed,         \* sockets on which netssd_close has been called
    queue,          \* per socket: its inbound (receive) queue
    pending,        \* per socket: datagrams dispatched since the last drain
    lastCall        \* the most recent call of an exported operation

regVars == <<protoReg, slot14, protoswReg, netssd_protosw>>
loadVars == <<pc, via, rc, initRet, failed, reachedProtosw>>
sockVars == <<created, closed, queue, pending, lastCall>>
vars == <<pc, via, rc, initRet, failed, protoReg, slot14, protoswReg, netssd_protosw,
          reachedProtosw, created, closed, queue, pending, lastCall>>

\* Everything the module itself owns or could write: the registrations, the
\* protosw object and the sockets' queues.
ModuleState == <<protoReg, slot14, protoswReg, netssd_protosw, queue>>

NoCall ==
    [op |-> "none", sk |-> 0, ret |-> 0, ok |-> TRUE, len |-> 0,
     errcb |-> FALSE, tx |-> 0]

NoFailure == [call |-> "none", code |-> 0]

Init ==
    /\ pc = "unloaded"
    /\ via = "none"
    /\ rc = 0
    /\ initRet = "none"
    /\ failed = NoFailure
    /\ protoReg = FALSE
    /\ slot14 \in {"none", "other"}
    /\ protoswReg = FALSE
    /\ netssd_protosw = ZeroProtosw
    /\ reachedProtosw = FALSE
    /\ created = {}
    /\ closed = {}
    /\ queue = [s \in SockIds |-> <<>>]
    /\ pending = [s \in SockIds |-> 0]
    /\ lastCall = NoCall

\* ------------------------------------------------- kernel registry calls

\* inet_add_protocol(prot, 14): installs the handler if the slot is free and
\* returns 0, and returns -1 if the slot is taken.
inet_add_protocol(slot) ==
    IF slot = "none" THEN [ret |-> 0, slot |-> "netssd"]
    ELSE [ret |-> -1, slot |-> slot]

\* inet_del_protocol(prot, 14): empties the slot if it holds prot and returns
\* 0, and returns -1 leaving the slot alone otherwise.
inet_del_protocol(slot) ==
    IF slot = "netssd" THEN [ret |-> 0, slot |-> "none"]
    ELSE [ret |-> -1, slot |-> slot]

\* ------------------------------------------------------ netssd_init_module

\* Where init goes after proto_register returned r.
InitAfterProtoRegister(r) ==
    IF r = 0 THEN "init_add" ELSE "cleanup_del"

\* A variant of InitAfterAddProtocol that returns rc on failure without
\* calling cleanup_module first.
InitAfterAddProtocol_NoCleanup(r) ==
    IF r = 0 THEN "init_protosw" ELSE "init_ret"

\* Where init goes after inet_add_protocol returned r.
InitAfterAddProtocol(r) ==
    IF r = 0 THEN "init_protosw" ELSE "cleanup_del"

\* rc = proto_register(&netssd_proto, 1); on failure cleanup_module().
InitProtoRegister ==
    /\ pc = "unloaded"
    /\ \E r \in ProtoRegisterResults :
        /\ rc' = r
        /\ protoReg' = (r = 0)
        /\ pc' = InitAfterProtoRegister(r)
        /\ via' = IF InitAfterProtoRegister(r) = "cleanup_del"
                  THEN "init" ELSE via
        /\ failed' = IF r = 0 THEN NoFailure
                     ELSE [call |-> "proto_register", code |-> r]
    /\ reachedProtosw' = FALSE
    /\ UNCHANGED <<initRet, slot14, protoswReg, netssd_protosw>>
    /\ UNCHANGED sockVars

\* rc = inet_add_protocol(&netssd_protocol, 14); on failure cleanup_module().
InitAddProtocol ==
    /\ pc = "init_add"
    /\ LET r == inet_add_protocol(slot14) IN
        /\ rc' = r.ret
        /\ slot14' = r.slot
        /\ pc' = InitAfterAddProtocol(r.ret)
        /\ via' = IF InitAfterAddProtocol(r.ret) = "cleanup_del"
                  THEN "init" ELSE via
        /\ failed' = IF r.ret = 0 THEN failed
                     ELSE [call |-> "inet_add_protocol", code |-> r.ret]
    /\ UNCHANGED <<initRet, protoReg, protoswReg, netssd_protosw,
                   reachedProtosw>>
    /\ UNCHANGED sockVars

\* memset + field assignments + inet_register_protosw(&netssd_protosw);
\* return 0.
InitRegisterProtosw ==
    /\ pc = "init_protosw"
    /\ netssd_protosw' = FilledProtosw
    /\ protoswReg' = TRUE
    /\ reachedProtosw' = TRUE
    /\ initRet' = 0
    /\ pc' = "loaded"
    /\ UNCHANGED <<via, rc, failed, protoReg, slot14>>
    /\ UNCHANGED sockVars

\* return rc; after cleanup_module() on a failure path.
InitReturnFailure ==
    /\ pc = "init_ret"
    /\ initRet' = rc
    /\ pc' = "init_failed"
    /\ UNCHANGED <<via, rc, failed, reachedProtosw>>
    /\ UNCHANGED regVars
    /\ UNCHANGED sockVars

\* --------------------------------------------------- netssd_cleanup_module

\* module_exit(netssd_cleanup_module): the kernel unloads a loaded module.
ModuleExit ==
    /\ pc = "loaded"
    /\ pc' = "cleanup_del"
    /\ via' = "exit"
    /\ UNCHANGED <<rc, initRet, failed, reachedProtosw>>
    /\ UNCHANGED regVars
    /\ UNCHANGED sockVars

\* rc = inet_del_protocol(&netssd_protocol, 14); the result is not used.
CleanupDelProtocol ==
    /\ pc = "cleanup_del"
    /\ slot14' = inet_del_protocol(slot14).slot
    /\ pc' = "cleanup_unreg"
    /\ UNCHANGED <<via, rc, initRet, failed, reachedProtosw>>
    /\ UNCHANGED <<protoReg, protoswReg, netssd_protosw>>
    /\ UNCHANGED sockVars

\* Where control goes when cleanup_module returns.
CleanupReturn(caller) ==
    IF caller = "init" THEN "init_ret" ELSE "exited"

\* proto_unregister(&netssd_proto); return.  Unregistering a proto that is
\* not on the list unlinks a list node that was never linked: the kernel
\* either faults there (the caller never resumes) or carries on.
CleanupProtoUnregister ==
    /\ pc = "cleanup_unreg"
    /\ protoReg' = FALSE
    /\ \/ pc' = CleanupReturn(via)
       \/ /\ ~protoReg
          /\ pc' = "oops"
    /\ UNCHANGED <<via, rc, initRet, failed, reachedProtosw>>
    /\ UNCHANGED <<slot14, protoswReg, netssd_protosw>>
    /\ UNCHANGED sockVars

\* ------------------------------------------------- exported operations
\* Each operation is written as the effects of one call: the value it
\* returns, the sockets' queues after it, whether it invoked the error
\* callback, and how many datagrams it handed to the host transport.

\* A variant of netssd_rcv that queues the datagram on every socket instead
\* of leaving the queues alone.
netssd_rcv_broadcast(skb) ==
    [ret |-> 0, queue |-> [s \in SockIds |-> Append(queue[s], skb)],
     errcb |-> FALSE, tx |-> 0]

\* int netssd_rcv(struct sk_buff *skb): logs a line and returns 0.
netssd_rcv(skb) ==
    [ret |-> 0, queue |-> queue, errcb |-> FALSE, tx |-> 0]

\* int netssd_err(struct sk_buff *skb, u32 info): returns 0.
netssd_err(skb, info) ==
    [ret |-> 0, queue |-> queue, errcb |-> FALSE, tx |-> 0]

\* void netssd_close(struct sock *sk, long timeout): empty body.
netssd_close(sk, timeout) ==
    [ret |-> "void", queue |-> queue, errcb |-> FALSE, tx |-> 0]

\* A variant of netssd_sendmsg that reports len bytes as sent.
netssd_sendmsg_len(sk, msg, len) ==
    [ret |-> len, queue |-> queue, errcb |-> FALSE, tx |-> 0]

\* int netssd_sendmsg(struct sock *sk, struct msghdr *msg, size_t len):
\* returns 0.
netssd_sendmsg(sk, msg, len) ==
    [ret |-> 0, queue |-> queue, errcb |-> FALSE, tx |-> 0]

\* int netssd_recvmsg(sk, msg, len, noblock, flags, addr_len): returns 0.
netssd_recvmsg(sk, msg, len, noblock, flags, addr_len) ==
    [ret |-> 0, queue |-> queue, errcb |-> FALSE, tx |-> 0]

\* int netssd_hash(struct sock *sock): returns 0.
netssd_hash(sock) ==
    [ret |-> 0, queue |-> queue, errcb |-> FALSE, tx |-> 0]

\* The record kept of a call: the operation, the socket it concerned, the
\* decodability / len argument it was given and its effects.
CallRecord(op, sk, ok, len, eff) ==
    [op |-> op, sk |-> sk, ret |-> eff.ret, ok |-> ok, len |-> len,
     errcb |-> eff.errcb, tx |-> eff.tx]

\* Datagrams dispatched to socket s since it was last drained, counted up to
\* one past the queue capacity.
Dispatched(s) ==
    IF pending[s] > InboundQueueCapacity THEN pending[s] ELSE pending[s] + 1

\* .handler = netssd_rcv: the IP layer hands over a datagram of protocol 14
\* while the handler is installed.
Rcv(skb) ==
    /\ slot14 = "netssd"
    /\ LET eff == netssd_rcv(skb) IN
        /\ queue' = eff.queue
        /\ lastCall' = CallRecord("rcv", skb.dst, skb.ok, 0, eff)
    /\ pending' = IF skb.ok /\ skb.dst \in created \ closed
                  THEN [pending EXCEPT ![skb.dst] = Dispatched(skb.dst)]
                  ELSE pending
    /\ UNCHANGED <<created, closed>>
    /\ UNCHANGED regVars
    /\ UNCHANGED loadVars

\* .err_handler = netssd_err: the IP layer reports an ICMP error.
Err(skb, info) ==
    /\ slot14 = "netssd"
    /\ LET eff == netssd_err(skb, info) IN
        /\ queue' = eff.queue
        /\ lastCall' = CallRecord("err", skb.dst, skb.ok, 0, eff)
    /\ UNCHANGED <<created, closed, pending>>
    /\ UNCHANGED regVars
    /\ UNCHANGED loadVars

\* .hash = netssd_hash: socket(AF_INET, SOCK_RAW, 14) finds netssd_protosw,
\* allocates the sock and hashes it; the socket exists if hash returned 0.
Socket(s) ==
    /\ protoswReg
    /\ s \notin created
    /\ LET eff == netssd_hash(s) IN
        /\ queue' = eff.queue
        /\ lastCall' = CallRecord("hash", s, TRUE, 0, eff)
        /\ created' = IF eff.ret = 0 THEN created \cup {s} ELSE created
    /\ UNCHANGED <<closed, pending>>
    /\ UNCHANGED regVars
    /\ UNCHANGED loadVars

\* .close = netssd_close: the application closes the socket.
Close(s, timeout) ==
    /\ s \in created
    /\ LET eff == netssd_close(s, timeout) IN
        /\ queue' = eff.queue
        /\ lastCall' = CallRecord("close", s, TRUE, 0, eff)
    /\ closed' = closed \cup {s}
    /\ UNCHANGED <<created, pending>>
    /\ UNCHANGED regVars
    /\ UNCHANGED loadVars

\* .sendmsg = netssd_sendmsg: the application sends len bytes on the socket.
Sendmsg(s, msg, len) ==
    /\ s \in created
    /\ LET eff == netssd_sendmsg(s, msg, len) IN
        /\ queue' = eff.queue
        /\ lastCall' = CallRecord("sendmsg", s, TRUE, len, eff)
    /\ UNCHANGED <<created, closed, pending>>
    /\ UNCHANGED regVars
    /\ UNCHANGED loadVars

\* .recvmsg = netssd_recvmsg: the application drains the socket.
Recvmsg(s, len, noblock) ==
    /\ s \in created
    /\ LET eff == netssd_recvmsg(s, "msg", len, noblock, 0, "addr_len") IN
        /\ queue' = eff.queue
        /\ lastCall' = CallRecord("recvmsg", s, TRUE, len, eff)
    /\ pending' = [pending EXCEPT ![s] = 0]
    /\ UNCHANGED <<created, closed>>
    /\ UNCHANGED regVars
    /\ UNCHANGED loadVars

RcvCall == \E skb \in Skbs : Rcv(skb)
ErrCall == \E skb \in Skbs : Err(skb, 0)
SocketCall == \E s \in SockIds : Socket(s)
CloseCall == \E s \in SockIds : Close(s, 0)
SendmsgCall == \E s \in SockIds, msg \in Payloads, len \in Lens :
                   Sendmsg(s, msg, len)
RecvmsgCall == \E s \in SockIds, len \in Lens, noblock \in BOOLEAN :
                   Recvmsg(s, len, noblock)

Next ==
    \/ InitProtoRegister
    \/ InitAddProtocol
    \/ InitRegisterProtosw
    \/ InitReturnFailure
    \/ ModuleExit
    \/ CleanupDelProtocol
    \/ CleanupProtoUnregister
    \/ RcvCall
    \/ ErrCall
    \/ SocketCall
    \/ CloseCall
    \/ SendmsgCall
    \/ RecvmsgCall

Spec == Init /\ [][Next]_vars

\* ------------------------------------------------------------ properties

\* A step that is a call: every step of the load / unload code moves pc, and
\* every other step is a call of an exported operation.
CallStep == pc' = pc /\ lastCall'.op # "none"

\* C1: after close() has been called on a session, a send on the same
\* session key fails (returns a negative error code, ClosedSession) and hands
\* no datagram to the host transport.
C1_SendAfterCloseFails ==
    (lastCall.op = "sendmsg" /\ lastCall.sk \in closed)
        => (lastCall.ret < 0 /\ lastCall.tx = 0)

\* C2: close() on an OPEN session moves it out of OPEN (to CLOSING, or to
\* CLOSED and out of the session table when its inbound queue is empty), so
\* the first close of a session changes the state the module keeps.
C2_CloseLeavesOpen ==
    [][\A s \in SockIds :
         (Close(s, 0) /\ s \notin closed) => ModuleState' # ModuleState]_vars

\* C3: every exported operation is an empty stub: whatever its arguments and
\* whatever the registration state, a call returns 0 (netssd_close returns
\* nothing) and leaves the registrations, netssd_protosw and the queues as
\* they were.
C3_StubsReturnZeroNoEffect ==
    [][CallStep =>
         /\ lastCall'.op = "close" => lastCall'.ret = "void"
         /\ lastCall'.op # "close" => lastCall'.ret = 0
         /\ ModuleState' = ModuleState]_vars

\* A sendmsg of a non-empty message on a socket of the loaded module has
\* returned.
C3_Witness ==
    /\ lastCall.op = "sendmsg"
    /\ lastCall.len > 0
    /\ pc = "loaded"
    /\ protoReg /\ protoswReg /\ slot14 = "netssd"

\* C4: a decodable datagram for a session key that has no session creates no
\* session, queues nothing, and makes the receive path invoke the error path
\* with NotFound.
C4_NoSessionInvokesErr ==
    (lastCall.op = "rcv" /\ lastCall.ok /\ lastCall.sk \notin created)
        => /\ queue[lastCall.sk] = <<>>
           /\ lastCall.errcb

\* C5: a received datagram that fails to decode is counted: the malformed-
\* datagram counter goes up by one, so the receive call changes the state the
\* module keeps.
C5_MalformedCounted ==
    [][\A skb \in Skbs :
         (Rcv(skb) /\ ~skb.ok) => ModuleState' # ModuleState]_vars

\* C6: an inbound queue never holds more than inbound_queue_capacity entries,
\* and after inbound_queue_capacity + 1 payloads were delivered to one OPEN
\* session without a drain it holds exactly inbound_queue_capacity entries.
C6_OverflowKeepsCapacity ==
    \A s \in SockIds :
        /\ Len(queue[s]) <= InboundQueueCapacity
        /\ pending[s] = InboundQueueCapacity + 1
               => Len(queue[s]) = InboundQueueCapacity

\* C7: session isolation: every entry of a session's inbound queue was
\* addressed to that session; nothing sent on or dispatched to another
\* session key appears in it.
C7_SessionIsolation ==
    \A b \in SockIds :
        \A i \in 1..Len(queue[b]) : queue[b][i].dst = b

\* Two sessions exist and a decodable datagram has just been dispatched to
\* one of them.
C7_Witness ==
    \E a \in created, b \in created :
        /\ a # b
        /\ lastCall.op = "rcv" /\ lastCall.sk = a /\ lastCall.ok
        /\ pending[a] > 0

\* C8: once netssd_cleanup_module has run after a successful init, none of
\* init's three registrations remains.
C8_TeardownComplete ==
    pc = "exited" =>
        /\ ~protoReg
        /\ slot14 # "netssd"
        /\ ~protoswReg

\* C9: inet_del_protocol is called only while netssd_protocol is installed
\* for protocol 14, and proto_unregister only while netssd_proto is
\* registered.
C9_UnregisterOnlyRegistered ==
    /\ pc = "cleanup_del" => slot14 = "netssd"
    /\ pc = "cleanup_unreg" => protoReg

\* C10: initialisation is all-or-nothing: a failed proto_register or
\* inet_add_protocol keeps init from reaching inet_register_protosw, and
\* when init returns after it, it returns that call's non-zero code with
\* neither netssd_proto nor the protocol-14 handler registered; when both
\* succeed init returns 0 with the proto, the handler and the protosw
\* registered.
C10_InitAllOrNothing ==
    /\ failed.call # "none" => ~reachedProtosw
    /\ pc = "init_failed" =>
        /\ failed.call # "none"
        /\ initRet = failed.code
        /\ initRet # 0
        /\ ~protoReg
        /\ slot14 # "netssd"
    /\ pc = "loaded" =>
        /\ failed.call = "none"
        /\ initRet = 0
        /\ protoReg
        /\ slot14 = "netssd"
        /\ protoswReg
        /\ netssd_protosw = FilledProtosw

\* init has returned after inet_add_protocol failed with the proto already
\* registered.
C10_Witness ==
    /\ pc = "init_failed"
    /\ failed.call = "inet_add_protocol"
    /\ initRet = -1

=============================================================================
